---- MODULE Spec2Model ----
(***************************************************************************)
(* Model of cernan's sink delivery code:                                   *)
(*   src/src/sink/kafka.rs  the Kafka sink (deliver_raw, flush, retries)   *)
(*   src/src/sink.rs        the Sink::run dispatcher loop and factory      *)
(***************************************************************************)
EXTENDS Integers, Sequences, FiniteSets, TLC

(***************************************************************************)
(* Bounds of the model.                                                    *)
(***************************************************************************)
\* Upper bound on the number of submissions handed to the transport
\* (deliver_raw calls plus resubmissions) in one behaviour; the additions
\* that the threads of other Kafka sinks make to the shared counters are
\* taken from the same budget.
MaxSent == 3

\* Payloads a caller hands to deliver_raw (byte vectors).
Payloads == { <<>>, <<1, 2, 3, 4>> }

\* order_by values a caller hands to deliver_raw.
OrderBys == { 0, 171 }

\* Values of KafkaConfig.max_message_bytes the sink is constructed with.
MaxBytesChoices == { 0, 4, 10 }

\* Upper bound on the number of events the producer sends.
MaxEvents == 2

\* Batches of metrics (named by number) an event can carry.
Batches == { <<>>, << 1, 2 >> }

(***************************************************************************)
(* Option<T>: None is <<>>, Some(x) is <<x>>.                              *)
(***************************************************************************)
None == <<>>
Some(x) == <<x>>
is_some(o) == o # <<>>
unwrap(o) == o[1]

(***************************************************************************)
(* format!("{:X}", order_by).as_bytes(): upper-case hexadecimal, no        *)
(* leading zeros, as ASCII bytes.                                          *)
(***************************************************************************)
HexDigit(d) == IF d < 10 THEN 48 + d ELSE 55 + d

RECURSIVE ToHex(_)
ToHex(n) == IF n < 16 THEN << HexDigit(n) >>
            ELSE Append(ToHex(n \div 16), HexDigit(n % 16))

(***************************************************************************)
(* The rdkafka error codes the sink distinguishes.                         *)
(***************************************************************************)
TransientErrors ==
    { "InvalidMessage", "UnknownTopicOrPartition", "LeaderNotAvailable",
      "NotLeaderForPartition", "RequestTimedOut", "NetworkException",
      "GroupLoadInProgress", "GroupCoordinatorNotAvailable",
      "NotCoordinatorForGroup", "NotEnoughReplicas",
      "NotEnoughReplicasAfterAppend", "NotController" }

\* Some RDKafkaError codes that are not on the list above.
OtherRDKafkaErrors == { "MessageSizeTooLarge", "TopicAuthorizationFailed" }

RDKafkaErrors == TransientErrors \cup OtherRDKafkaErrors

(***************************************************************************)
(* KafkaConfig, as far as Kafka::init tests it, and the arguments of the   *)
(* Sink calls that the Kafka sink ignores.                                 *)
(***************************************************************************)
Configs == [topic_name : { None, Some("topic") },
            brokers : { None, Some("broker") }]

\* Arc<Option<Telemetry>> and Arc<Option<LogLine>>
Points == { None, Some(1) }
Lines == { None, Some(2) }

(***************************************************************************)
(* State.                                                                  *)
(*                                                                         *)
(* Kafka sink (src/src/sink/kafka.rs):                                      *)
(*   messages          Kafka.messages: the in-flight DeliveryFutures, each *)
(*                     standing for the submission (payload, key) that     *)
(*                     producer.send_copy was given when it was created    *)
(*   message_bytes     Kafka.message_bytes                                 *)
(*   max_message_bytes Kafka.max_message_bytes                             *)
(*   SUCCESS_SUM, RETRY_SUM, FAILURE_SUM, RETRY_FAILURE_SUM                *)
(*                     the four KAFKA_PUBLISH_*_SUM statics                *)
(*   pc                where the sink's thread is: "idle" (between calls), *)
(*                     "while" (flush's loop test), "await" (inside        *)
(*                     await_inflight_messages), "resubmit" (flush's map   *)
(*                     over the messages to retry), "dropped" (after       *)
(*                     shutdown consumed the sink), "panicked" (Kafka::init*)
(*                     panicked: there is no sink)                         *)
(*   config            the KafkaConfig given to Kafka::init                *)
(*   i                 index of the future await_inflight_messages waits   *)
(*                     on next                                             *)
(*   retry_payload_and_keys                                                *)
(*                     the OwnedMessages collected for retry in this pass; *)
(*                     field h (history) is the index in messages of the   *)
(*                     future that returned the message                    *)
(*   shutting          TRUE while the running flush was called by shutdown *)
(* History variables (not read by the code):                               *)
(*   nsent             number of try_payload calls so far                  *)
(*   last              the result of the future awaited last               *)
(*   shapes            the shapes of the results awaited so far in the     *)
(*                     current pass of flush, by index in messages         *)
(*   lastOp            the operation of the sink that was called last      *)
(*   mark              counters, nsent and Len(messages) when the current  *)
(*                     (or last) flush was called                          *)
(*   ev                the results awaited in the current (or last) flush, *)
(*                     counted by shape                                    *)
(*   others            number of additions made to the four statics by the *)
(*                     threads of other Kafka sinks of the process         *)
(*   budget            the number of submissions the transport takes in    *)
(*                     this behaviour: a bound of the model, fixed by Init *)
(***************************************************************************)
VARIABLES messages, message_bytes, max_message_bytes,
          SUCCESS_SUM, RETRY_SUM, FAILURE_SUM, RETRY_FAILURE_SUM,
          pc, i, retry_payload_and_keys, shutting,
          nsent, last, shapes, lastOp, mark, ev, config, others, budget

counters == << SUCCESS_SUM, RETRY_SUM, FAILURE_SUM, RETRY_FAILURE_SUM >>
kvars == << messages, message_bytes, max_message_bytes, counters,
            pc, i, retry_payload_and_keys, shutting,
            nsent, last, shapes, lastOp, mark, ev >>
xvars == << config, others, budget >>

(***************************************************************************)
(* Dispatch (src/src/sink.rs):                                             *)
(*   args          the sink flags of Args given to factory                 *)
(*   chan          chan[s]: the events queued in the channel of sink s     *)
(*   sendersAlive  FALSE once the Senders factory returned are dropped     *)
(*   rpc           rpc[s]: where the thread of sink s is in Sink::run:     *)
(*                 "none" (not spawned), "recv" (in recv.iter()), "event"  *)
(*                 (in the match on an event), "exited" (run returned)     *)
(*   cur, idx      cur[s]: the event being matched; idx[s]: the index of   *)
(*                 the next metric of its for loop                         *)
(*   calls         calls[s]: the calls run has made on sink s, in order    *)
(*   hung          the sinks whose last call never returns                 *)
(* History variables:                                                      *)
(*   sentLog       the events sent so far, in order                        *)
(*   evStart       evStart[s]: Len(calls[s]) when cur[s] was received      *)
(*   processed     processed[s]: number of events whose match has ended    *)
(***************************************************************************)
VARIABLES args, chan, sendersAlive, rpc, cur, idx, calls, hung,
          sentLog, evStart, processed

dvars == << args, chan, sendersAlive, rpc, cur, idx, calls, hung,
            sentLog, evStart, processed >>

vars == << kvars, xvars, dvars >>

(***************************************************************************)
(* Kafka::valve_state                                                      *)
(***************************************************************************)
\* (variant: the comparison written <=)
valve_state_le(bytes, ceiling) ==
    IF bytes <= ceiling THEN "Open" ELSE "Closed"

valve_state(bytes, ceiling) == IF bytes < ceiling THEN "Open" ELSE "Closed"

ValveState == valve_state(message_bytes, max_message_bytes)

(***************************************************************************)
(* Kafka::try_payload: what producer.send_copy is given; the future it     *)
(* returns stands for this submission.                                     *)
(***************************************************************************)
try_payload(payload, key) == [payload |-> payload, key |-> key]

(***************************************************************************)
(* The results future.wait() can give for the future of submission s.      *)
(*   Delivered          Ok(Ok((partition, offset)))                        *)
(*   MessageProduction  Ok(Err((KafkaError::MessageProduction(err), msg))) *)
(*   OtherKafkaError    Ok(Err((err, msg))), err another KafkaError        *)
(*   Canceled           Err(Canceled)                                      *)
(* The OwnedMessage of a failure is the detached submission; its payload   *)
(* and key are each present or absent.                                     *)
(***************************************************************************)
NoMessage == [payload |-> None, key |-> None]

ReturnedMessages(s) ==
    { [payload |-> p, key |-> k] :
        p \in { None, Some(s.payload) }, k \in { None, Some(s.key) } }

WaitResults(s) ==
    { [kind |-> "Delivered", err |-> "NoError", msg |-> NoMessage] }
    \cup { [kind |-> "MessageProduction", err |-> e, msg |-> m] :
             e \in RDKafkaErrors, m \in ReturnedMessages(s) }
    \cup { [kind |-> "OtherKafkaError", err |-> "RequestTimedOut", msg |-> m] :
             m \in ReturnedMessages(s) }
    \cup { [kind |-> "Canceled", err |-> "NoError", msg |-> NoMessage] }

(***************************************************************************)
(* The match of await_inflight_messages: which counter a result bumps,     *)
(* and whether the closure returns Some(message).                          *)
(***************************************************************************)
\* (variant: a code too many on the retry list)
IsTransientWide(err) == err \in TransientErrors \cup { "MessageSizeTooLarge" }

IsTransient(err) == err \in TransientErrors

\* (variant: the retry arm missing, every error falls to the failure arms)
ClassifyNoRetry(result) ==
    IF result.kind = "Delivered" THEN "success" ELSE "failure"

Classify(result) ==
    CASE result.kind = "Delivered" -> "success"
      [] result.kind = "MessageProduction" ->
            IF IsTransient(result.err) THEN "retry" ELSE "failure"
      [] OTHER -> "failure"

\* COUNTER.fetch_add(1, Ordering::Relaxed) in the arm taken.
\* (variant: the increment outside the match, done for every result)
BumpAlways(count, taken) == count + 1

\* (variant: store(1) in place of fetch_add(1))
BumpStore(count, taken) == IF taken THEN 1 ELSE count

BumpIf(count, taken) == IF taken THEN count + 1 ELSE count

\* What the closure collects for a result classified "retry".
RetryMessage(result, h) ==
    [payload |-> result.msg.payload, key |-> result.msg.key, h |-> h]

(***************************************************************************)
(* flush's closure over retry_payload_and_keys.                            *)
(***************************************************************************)
CanResubmit(message) == is_some(message.payload) /\ is_some(message.key)

\* (variant: payload and key passed in the wrong order)
ResubmitOneSwapped(message) ==
    try_payload(unwrap(message.key), unwrap(message.payload))

ResubmitOne(message) ==
    try_payload(unwrap(message.payload), unwrap(message.key))

\* st = [new, lost]: the new_messages collected so far and the
\* RETRY_FAILURE_SUM increments.
\* (variant: a message that cannot be resubmitted is dropped uncounted)
RECURSIVE ResubmitAllUncounted(_, _)
ResubmitAllUncounted(retries, st) ==
    IF retries = <<>> THEN st
    ELSE LET message == Head(retries)
         IN  ResubmitAllUncounted(Tail(retries),
               IF CanResubmit(message)
               THEN [st EXCEPT !.new = Append(@, ResubmitOne(message))]
               ELSE st)

RECURSIVE ResubmitAll(_, _)
ResubmitAll(retries, st) ==
    IF retries = <<>> THEN st
    ELSE LET message == Head(retries)
         IN  ResubmitAll(Tail(retries),
               IF CanResubmit(message)
               THEN [st EXCEPT !.new = Append(@, ResubmitOne(message))]
               ELSE [st EXCEPT !.lost = @ + 1])

(***************************************************************************)
(* Shapes of results, as the specification names them (used by the history *)
(* variables and by the properties; the code uses Classify).               *)
(***************************************************************************)
CarriesOriginal(result) ==
    is_some(result.msg.payload) /\ is_some(result.msg.key)

TransientShape(result) ==
    result.kind = "MessageProduction" /\ result.err \in TransientErrors

Shape(result) ==
    CASE result.kind = "Delivered" -> "ok"
      [] TransientShape(result) /\ CarriesOriginal(result) -> "transient"
      [] TransientShape(result) /\ ~CarriesOriginal(result) -> "transientLost"
      [] OTHER -> "fatal"

NoEvents == [ok |-> 0, transient |-> 0, transientLost |-> 0, fatal |-> 0]

Snapshot == [success |-> SUCCESS_SUM, retry |-> RETRY_SUM,
             failure |-> FAILURE_SUM, lost |-> RETRY_FAILURE_SUM,
             nsent |-> nsent, n |-> Len(messages)]

NoResult == [kind |-> "Canceled", err |-> "NoError", msg |-> NoMessage]

(***************************************************************************)
(* Kafka::init                                                             *)
(***************************************************************************)
\* if config.topic_name.is_none() { panic! }
\* if config.brokers.is_none() { panic! }
\* (variant: the test of the brokers is missing)
ConfigCompleteTopicOnly(c) == is_some(c.topic_name)

ConfigComplete(c) == is_some(c.topic_name) /\ is_some(c.brokers)

\* When init panics no Kafka value exists: its fields are modelled empty and
\* pc is "panicked", where no operation of the sink can be called.
KafkaInit ==
    /\ config \in Configs
    /\ others = 0
    /\ budget \in { MaxSent, MaxSent + 1 }
    /\ messages = <<>>
    /\ message_bytes = 0
    /\ max_message_bytes \in MaxBytesChoices
    /\ SUCCESS_SUM = 0 /\ RETRY_SUM = 0
    /\ FAILURE_SUM = 0 /\ RETRY_FAILURE_SUM = 0
    /\ pc = IF ConfigComplete(config) THEN "idle" ELSE "panicked"
    /\ i = 1
    /\ retry_payload_and_keys = <<>>
    /\ shutting = FALSE
    /\ nsent = 0
    /\ last = NoResult
    /\ shapes = <<>>
    /\ lastOp = "init"
    /\ mark = Snapshot
    /\ ev = NoEvents

(***************************************************************************)
(* Kafka::deliver and Kafka::deliver_line: empty bodies.                   *)
(***************************************************************************)
deliver(point) ==
    /\ pc = "idle"
    /\ lastOp' = "deliver"
    /\ UNCHANGED << dvars, xvars >>
    /\ UNCHANGED << messages, message_bytes, max_message_bytes, counters, pc,
                    i, retry_payload_and_keys, shutting, nsent, last, shapes,
                    mark, ev >>

Deliver == \E point \in Points : deliver(point)

deliver_line(line) ==
    /\ pc = "idle"
    /\ lastOp' = "deliver_line"
    /\ UNCHANGED << dvars, xvars >>
    /\ UNCHANGED << messages, message_bytes, max_message_bytes, counters, pc,
                    i, retry_payload_and_keys, shutting, nsent, last, shapes,
                    mark, ev >>

DeliverLine == \E line \in Lines : deliver_line(line)

(***************************************************************************)
(* Kafka::deliver_raw                                                      *)
(***************************************************************************)
\* self.message_bytes += bytes.len()
\* (variant: the futures are counted, not their bytes)
AddBytesOne(total, bytes) == total + 1

\* (variant: = in place of +=)
AddBytesAssign(total, bytes) == Len(bytes)

AddBytes(total, bytes) == total + Len(bytes)

deliver_raw(order_by, bytes) ==
    /\ pc = "idle"
    /\ nsent < budget
    /\ LET key == ToHex(order_by)
       IN  messages' = Append(messages, try_payload(bytes, key))
    /\ message_bytes' = AddBytes(message_bytes, bytes)
    /\ nsent' = nsent + 1
    /\ lastOp' = "deliver_raw"
    /\ UNCHANGED << dvars, xvars >>
    /\ UNCHANGED << max_message_bytes, counters, pc, i,
                    retry_payload_and_keys, shutting, last, shapes, mark, ev >>

DeliverRaw == \E order_by \in OrderBys, bytes \in Payloads :
                 deliver_raw(order_by, bytes)

(***************************************************************************)
(* Kafka::flush, by the points at which it can wait.                       *)
(***************************************************************************)
\* The call: control reaches the while test.
EnterFlush(byShutdown) ==
    /\ pc = "idle"
    /\ pc' = "while"
    /\ shutting' = byShutdown
    /\ lastOp' = IF byShutdown THEN "shutdown" ELSE "flush"
    /\ mark' = Snapshot
    /\ ev' = NoEvents
    /\ UNCHANGED << dvars, xvars >>
    /\ UNCHANGED << messages, message_bytes, max_message_bytes, counters, i,
                    retry_payload_and_keys, nsent, last, shapes >>

flush == EnterFlush(FALSE)

\* Kafka::shutdown is self.flush(), then the sink is dropped.
shutdown == EnterFlush(TRUE)

\* while !self.messages.is_empty()
\* (variant: the test off by one)
LoopConditionOffByOne(msgs) == Len(msgs) > 1

LoopCondition(msgs) == msgs # <<>>

\* The loop test holds: enter await_inflight_messages.
FlushPass ==
    /\ pc = "while"
    /\ LoopCondition(messages)
    /\ pc' = "await"
    /\ i' = 1
    /\ shapes' = <<>>
    /\ UNCHANGED << dvars, xvars >>
    /\ UNCHANGED << messages, message_bytes, max_message_bytes, counters,
                    retry_payload_and_keys, shutting, nsent, last, lastOp,
                    mark, ev >>

\* for future in self.messages.iter_mut(): the future of the k-th wait of a
\* pass over n futures.
\* (variant: the futures are taken from the back, as by pop)
AwaitIndexFromBack(k, n) == n + 1 - k

AwaitIndex(k, n) == k

\* One future.wait() of await_inflight_messages and the match on its result.
AwaitOne ==
    /\ pc = "await"
    /\ i <= Len(messages)
    /\ \E result \in WaitResults(messages[AwaitIndex(i, Len(messages))]) :
         LET c == Classify(result)
         IN  /\ c = "retry" =>
                    nsent + Len(retry_payload_and_keys) < budget
             /\ SUCCESS_SUM' = BumpIf(SUCCESS_SUM, c = "success")
             /\ RETRY_SUM' = BumpIf(RETRY_SUM, c = "retry")
             /\ FAILURE_SUM' = BumpIf(FAILURE_SUM, c = "failure")
             /\ retry_payload_and_keys' =
                    IF c = "retry"
                    THEN Append(retry_payload_and_keys,
                                RetryMessage(result,
                                             AwaitIndex(i, Len(messages))))
                    ELSE retry_payload_and_keys
             /\ last' = result
             /\ shapes' = Append(shapes, Shape(result))
             /\ ev' = [ev EXCEPT ![Shape(result)] = @ + 1]
    /\ i' = i + 1
    /\ pc' = IF i = Len(messages) THEN "resubmit" ELSE "await"
    /\ UNCHANGED << dvars, xvars >>
    /\ UNCHANGED << messages, message_bytes, max_message_bytes,
                    RETRY_FAILURE_SUM, shutting, nsent, lastOp, mark >>

\* The map over retry_payload_and_keys and self.messages = new_messages;
\* retry_payload_and_keys goes out of scope.
Resubmit ==
    /\ pc = "resubmit"
    /\ LET st == ResubmitAll(retry_payload_and_keys,
                             [new |-> <<>>, lost |-> 0])
       IN  /\ messages' = st.new
           /\ nsent' = nsent + Len(st.new)
           /\ RETRY_FAILURE_SUM' = RETRY_FAILURE_SUM + st.lost
    /\ retry_payload_and_keys' = <<>>
    /\ pc' = "while"
    /\ UNCHANGED << dvars, xvars >>
    /\ UNCHANGED << message_bytes, max_message_bytes, SUCCESS_SUM, RETRY_SUM,
                    FAILURE_SUM, i, shutting, last, shapes, lastOp, mark, ev >>

\* self.message_bytes = 0
\* (variant: the reset is missing)
BytesAfterFlushKept(bytes) == bytes

BytesAfterFlush(bytes) == 0

\* The loop test fails: self.message_bytes = 0, and flush returns.
FlushReturn ==
    /\ pc = "while"
    /\ ~LoopCondition(messages)
    /\ message_bytes' = BytesAfterFlush(message_bytes)
    /\ pc' = IF shutting THEN "dropped" ELSE "idle"
    /\ UNCHANGED << dvars, xvars >>
    /\ UNCHANGED << messages, max_message_bytes, counters, i,
                    retry_payload_and_keys, shutting, nsent, last, shapes,
                    lastOp, mark, ev >>

(***************************************************************************)
(* server::Event and the sinks of factory.                                 *)
(***************************************************************************)
SinkNames == { "console", "wavefront", "librato" }

TimerFlush == [type |-> "TimerFlush", metrics |-> <<>>]
Graphite(metrics) == [type |-> "Graphite", metrics |-> metrics]
Statsd(metrics) == [type |-> "Statsd", metrics |-> metrics]

Events == { TimerFlush } \cup { Graphite(m) : m \in Batches }
                         \cup { Statsd(m) : m \in Batches }

\* The calls of the Sink trait that run makes.
FlushCall == [op |-> "flush", point |-> 0]
DeliverCall(metric) == [op |-> "deliver", point |-> metric]

\* factory: one channel and one thread for each flag that is set.
factory(a) == { s \in SinkNames : a[s] }

sinks == factory(args)

DispatchFresh(a) ==
    /\ args = a
    /\ chan = [s \in SinkNames |-> <<>>]
    /\ sendersAlive = TRUE
    /\ rpc = [s \in SinkNames |-> IF s \in factory(a) THEN "recv" ELSE "none"]
    /\ cur = [s \in SinkNames |-> TimerFlush]
    /\ idx = [s \in SinkNames |-> 1]
    /\ calls = [s \in SinkNames |-> <<>>]
    /\ hung = {}
    /\ sentLog = <<>>
    /\ evStart = [s \in SinkNames |-> 0]
    /\ processed = [s \in SinkNames |-> 0]

\* No sink is configured.
DispatchIdle == DispatchFresh([s \in SinkNames |-> FALSE])

DispatchInit == \E a \in [SinkNames -> BOOLEAN] : DispatchFresh(a)

\* channel(): Sender::send never waits for the receiver.
\* (variant: a rendezvous channel, sync_channel(0) with a waiting receiver)
ChannelAcceptsRendezvous(queue) == queue = <<>>

ChannelAccepts(queue) == TRUE

\* The ingestion layer sends an event to the channel of every sink.
Produce ==
    /\ sendersAlive
    /\ Len(sentLog) < MaxEvents
    /\ \A s \in sinks : ChannelAccepts(chan[s])
    /\ \E e \in Events :
         /\ chan' = [s \in SinkNames |->
                       IF s \in sinks THEN Append(chan[s], e) ELSE chan[s]]
         /\ sentLog' = Append(sentLog, e)
    /\ UNCHANGED << kvars, xvars >>
    /\ UNCHANGED << args, sendersAlive, rpc, cur, idx, calls, hung, evStart,
                    processed >>

\* The Vec of Senders that factory returned is dropped.
DropSenders ==
    /\ sendersAlive
    /\ sendersAlive' = FALSE
    /\ UNCHANGED << kvars, xvars >>
    /\ UNCHANGED << args, chan, rpc, cur, idx, calls, hung, sentLog, evStart,
                    processed >>

\* thread::spawn: each sink runs on a thread of its own, which runs unless
\* its own call hangs.
\* (variant: the sinks run in turn on one thread)
RunnableOnSharedThread(s, h) == h = {}

Runnable(s, h) == s \notin h

\* Receiver::iter yields the events in the order they were sent.
\* (variant: the newest event first)
NextEventNewest(queue) == queue[Len(queue)]

NextEvent(queue) == Head(queue)

\* for event in recv.iter(): the next event is taken from the channel.
Recv(s) ==
    /\ Runnable(s, hung)
    /\ rpc[s] = "recv"
    /\ chan[s] # <<>>
    /\ cur' = [cur EXCEPT ![s] = NextEvent(chan[s])]
    /\ chan' = [chan EXCEPT ![s] = Tail(@)]
    /\ idx' = [idx EXCEPT ![s] = 1]
    /\ evStart' = [evStart EXCEPT ![s] = Len(calls[s])]
    /\ rpc' = [rpc EXCEPT ![s] = "event"]
    /\ UNCHANGED << kvars, xvars >>
    /\ UNCHANGED << args, sendersAlive, calls, hung, sentLog, processed >>

\* recv.iter() ends: the channel is empty and every Sender is dropped; run
\* returns.
Exit(s) ==
    /\ Runnable(s, hung)
    /\ rpc[s] = "recv"
    /\ chan[s] = <<>>
    /\ ~sendersAlive
    /\ rpc' = [rpc EXCEPT ![s] = "exited"]
    /\ UNCHANGED << kvars, xvars >>
    /\ UNCHANGED << args, chan, sendersAlive, cur, idx, calls, hung, sentLog,
                    evStart, processed >>

\* The metric the for loop hands to deliver at step k.
\* (variant: the batch walked from its end)
NextMetricReversed(metrics, k) == metrics[Len(metrics) + 1 - k]

NextMetric(metrics, k) == metrics[k]

\* The call run makes next on sink s, if any: flush for TimerFlush, deliver
\* of the next metric for Graphite and Statsd.
HasNextCall(s) ==
    /\ rpc[s] = "event"
    /\ cur[s].type = "TimerFlush" \/ idx[s] <= Len(cur[s].metrics)

NextCall(s) ==
    IF cur[s].type = "TimerFlush" THEN FlushCall
    ELSE DeliverCall(NextMetric(cur[s].metrics, idx[s]))

\* server::Event::TimerFlush => self.flush(), and flush returns.
CallFlush(s) ==
    /\ Runnable(s, hung)
    /\ HasNextCall(s)
    /\ cur[s].type = "TimerFlush"
    /\ calls' = [calls EXCEPT ![s] = Append(@, NextCall(s))]
    /\ rpc' = [rpc EXCEPT ![s] = "recv"]
    /\ processed' = [processed EXCEPT ![s] = @ + 1]
    /\ UNCHANGED << kvars, xvars >>
    /\ UNCHANGED << args, chan, sendersAlive, cur, idx, hung, sentLog,
                    evStart >>

\* self.deliver(metric.clone()), and deliver returns.
CallDeliver(s) ==
    /\ Runnable(s, hung)
    /\ HasNextCall(s)
    /\ cur[s].type # "TimerFlush"
    /\ calls' = [calls EXCEPT ![s] = Append(@, NextCall(s))]
    /\ idx' = [idx EXCEPT ![s] = @ + 1]
    /\ UNCHANGED << kvars, xvars >>
    /\ UNCHANGED << args, chan, sendersAlive, rpc, cur, hung, sentLog,
                    evStart, processed >>

\* The for loop over the metrics of the event ends.
EndBatch(s) ==
    /\ Runnable(s, hung)
    /\ rpc[s] = "event"
    /\ cur[s].type # "TimerFlush"
    /\ idx[s] > Len(cur[s].metrics)
    /\ rpc' = [rpc EXCEPT ![s] = "recv"]
    /\ processed' = [processed EXCEPT ![s] = @ + 1]
    /\ UNCHANGED << kvars, xvars >>
    /\ UNCHANGED << args, chan, sendersAlive, cur, idx, calls, hung, sentLog,
                    evStart >>

\* The call is made and never returns (a flush that loops for ever, a
\* deliver that blocks).
Hang(s) ==
    /\ Runnable(s, hung)
    /\ HasNextCall(s)
    /\ calls' = [calls EXCEPT ![s] = Append(@, NextCall(s))]
    /\ hung' = hung \cup { s }
    /\ UNCHANGED << kvars, xvars >>
    /\ UNCHANGED << args, chan, sendersAlive, rpc, cur, idx, sentLog,
                    evStart, processed >>

\* A step of the thread of sink s that returns.
RunStep(s) ==
    \/ Recv(s)
    \/ CallFlush(s)
    \/ CallDeliver(s)
    \/ EndBatch(s)
    \/ Exit(s)

DispatchNext ==
    \/ Produce
    \/ DropSenders
    \/ \E s \in SinkNames : Recv(s)
    \/ \E s \in SinkNames : CallFlush(s)
    \/ \E s \in SinkNames : CallDeliver(s)
    \/ \E s \in SinkNames : EndBatch(s)
    \/ \E s \in SinkNames : Exit(s)
    \/ \E s \in SinkNames : Hang(s)

KafkaNext ==
    \/ Deliver
    \/ DeliverLine
    \/ DeliverRaw
    \/ flush
    \/ shutdown
    \/ FlushPass
    \/ AwaitOne
    \/ Resubmit
    \/ FlushReturn

Init == KafkaInit /\ budget = MaxSent /\ DispatchIdle

Next == KafkaNext

Spec == Init /\ [][Next]_vars

\* The sink with one payload and one order_by standing for all: neither the
\* counters nor the course of flush depend on what is submitted.
DeliverRawOne == deliver_raw(171, <<1, 2, 3, 4>>)

SinkNextOne ==
    \/ Deliver
    \/ DeliverLine
    \/ DeliverRawOne
    \/ flush
    \/ shutdown
    \/ FlushPass
    \/ AwaitOne
    \/ Resubmit
    \/ FlushReturn

\* The thread of the sink is scheduled while it is inside flush.
FlushStep == FlushPass \/ AwaitOne \/ Resubmit \/ FlushReturn

FairFlushInit == Init /\ max_message_bytes = 10 /\ ConfigComplete(config)

FairFlush == FairFlushInit /\ [][SinkNextOne]_vars /\ WF_vars(FlushStep)

\* The sink with one payload and two order_bys, and one submission more in
\* the budget: two messages can be retried by one pass of flush, and their
\* keys tell them apart.
DeliverRawKeyed ==
    \E order_by \in OrderBys : deliver_raw(order_by, <<1, 2, 3, 4>>)

OrderInit ==
    KafkaInit /\ budget = MaxSent + 1 /\ max_message_bytes = 10
              /\ ConfigComplete(config) /\ DispatchIdle

OrderNext ==
    \/ DeliverRawKeyed
    \/ flush
    \/ shutdown
    \/ FlushPass
    \/ AwaitOne
    \/ Resubmit
    \/ FlushReturn

SpecOrder == OrderInit /\ [][OrderNext]_vars

\* The statics are shared by every Kafka sink of the process: the thread of
\* another Kafka sink runs one fetch_add(1, Ordering::Relaxed) on one of them.
OtherSinkAdd ==
    /\ nsent + others < budget
    /\ others' = others + 1
    /\ \E c \in 1..4 :
         /\ SUCCESS_SUM' = BumpIf(SUCCESS_SUM, c = 1)
         /\ RETRY_SUM' = BumpIf(RETRY_SUM, c = 2)
         /\ FAILURE_SUM' = BumpIf(FAILURE_SUM, c = 3)
         /\ RETRY_FAILURE_SUM' = BumpIf(RETRY_FAILURE_SUM, c = 4)
    /\ UNCHANGED << dvars, config, budget >>
    /\ UNCHANGED << messages, message_bytes, max_message_bytes, pc, i,
                    retry_payload_and_keys, shutting, nsent, last, shapes,
                    lastOp, mark, ev >>

SharedInit == Init /\ max_message_bytes = 4 /\ ConfigComplete(config)

SharedNext == SinkNextOne \/ OtherSinkAdd

SpecShared == SharedInit /\ [][SharedNext]_vars

\* The dispatch of factory's sinks, the Kafka sink left as constructed.
SpecDispatchInit ==
    KafkaInit /\ budget = MaxSent /\ max_message_bytes = 10
              /\ ConfigComplete(config) /\ DispatchInit

SpecDispatch == SpecDispatchInit /\ [][DispatchNext]_vars

\* Each sink's thread is scheduled as long as it can take a step.
FairDispatch ==
    /\ SpecDispatch
    /\ \A s \in SinkNames : WF_vars(RunStep(s))

(***************************************************************************)
(* Properties of the Kafka sink.                                           *)
(***************************************************************************)
\* flush (or the flush of shutdown) has just returned.
FlushReturned ==
    \/ pc = "idle" /\ lastOp = "flush"
    \/ pc = "dropped" /\ lastOp = "shutdown"

\* What the last flush added to each counter and to the transport.
Delta == [success |-> SUCCESS_SUM - mark.success,
          retry |-> RETRY_SUM - mark.retry,
          failure |-> FAILURE_SUM - mark.failure,
          lost |-> RETRY_FAILURE_SUM - mark.lost,
          nsent |-> nsent - mark.nsent]

\* Sum of the payload lengths of a sequence of submissions.
RECURSIVE SumLen(_)
SumLen(msgs) ==
    IF msgs = <<>> THEN 0 ELSE Len(Head(msgs).payload) + SumLen(Tail(msgs))

\* The submissions of msgs, from index k on, whose awaited result had the
\* shape "transient", in order.
RECURSIVE TransientOnes(_, _, _)
TransientOnes(msgs, shp, k) ==
    IF k > Len(msgs) THEN <<>>
    ELSE (IF shp[k] = "transient" THEN << msgs[k] >> ELSE <<>>)
         \o TransientOnes(msgs, shp, k + 1)

\* C1: whenever flush() returns, whatever was submitted and whatever the
\* transport answered, the in-flight collection is empty and message_bytes
\* is 0.
C1_FlushEmptiesInFlight ==
    FlushReturned => messages = <<>> /\ message_bytes = 0

\* A flush of two or more submissions, one of them retried, has returned.
C1_Witness ==
    /\ pc = "idle" /\ lastOp = "flush"
    /\ mark.n >= 2 /\ ev.transient >= 1 /\ ev.ok >= 1 /\ ev.fatal >= 1

\* C2 (as claimed): a flush of one in-flight payload whose only result is a
\* transient error without the original bytes adds 1 to the retry-lost
\* counter, resubmits nothing and leaves the success, retry and failure
\* counters unchanged.
C2_LostRetryChangesNoOtherCounter ==
    ( /\ FlushReturned
      /\ mark.n = 1
      /\ ev = [ok |-> 0, transient |-> 0, transientLost |-> 1, fatal |-> 0] )
    => Delta = [success |-> 0, retry |-> 0, failure |-> 0, lost |-> 1,
                nsent |-> 0]

C4_TransientIsResubmittedIdentically ==
    /\ [][ (pc = "await" /\ Shape(last') = "transient")
           => /\ RETRY_SUM' = RETRY_SUM + 1
              /\ retry_payload_and_keys' =
                   Append(retry_payload_and_keys,
                          [payload |-> Some(messages[i].payload),
                           key |-> Some(messages[i].key), h |-> i]) ]_vars
    /\ [][ pc = "resubmit"
           => /\ messages' = TransientOnes(messages, shapes, 1)
              /\ nsent' = nsent + Len(messages') ]_vars
    /\ [](pc \in { "idle", "while", "dropped" }
           => retry_payload_and_keys = <<>>)

\* A pass has ended with a payload resubmitted under a non-trivial key.
C4_Witness ==
    /\ pc = "while" /\ messages # <<>>
    /\ nsent > mark.nsent
    /\ Shape(last) = "transient"
    /\ \E k \in 1..Len(messages) :
         messages[k] = [payload |-> <<1, 2, 3, 4>>, key |-> <<65, 66>>]

\* C5: a result that is a success adds exactly 1 to the success counter,
\* leaves the retry, failure and retry-lost counters unchanged, and queues
\* nothing for retry; nothing whose result was a success is ever queued, and
\* a pass resubmits no more than it queued.
C5_SuccessCountsOnceAndEnds ==
    /\ [][ (pc = "await" /\ Shape(last') = "ok")
           => /\ SUCCESS_SUM' = SUCCESS_SUM + 1
              /\ RETRY_SUM' = RETRY_SUM
              /\ FAILURE_SUM' = FAILURE_SUM
              /\ RETRY_FAILURE_SUM' = RETRY_FAILURE_SUM
              /\ retry_payload_and_keys' = retry_payload_and_keys
              /\ messages' = messages /\ nsent' = nsent ]_vars
    /\ [](\A k \in 1..Len(retry_payload_and_keys) :
            shapes[retry_payload_and_keys[k].h] # "ok")
    /\ [][ pc = "resubmit"
           => Len(messages') <= Len(retry_payload_and_keys) ]_vars

\* A success has been awaited in a pass that also queued a retry.
C5_Witness ==
    /\ pc = "resubmit" /\ Shape(last) = "ok"
    /\ SUCCESS_SUM >= 1
    /\ retry_payload_and_keys # <<>>

\* C6: a result that is a non-transient error (a code off the transient list,
\* another KafkaError, a cancelled future) adds exactly 1 to the failure
\* counter and queues nothing for retry; nothing whose result was such an
\* error is ever queued, and what a pass resubmits is only what it queued, so
\* the payload reaches the transport again in no later submission.
C6_FatalCountsOnceAndEnds ==
    /\ [][ (pc = "await" /\ Shape(last') = "fatal")
           => /\ FAILURE_SUM' = FAILURE_SUM + 1
              /\ retry_payload_and_keys' = retry_payload_and_keys
              /\ messages' = messages /\ nsent' = nsent ]_vars
    /\ [](\A k \in 1..Len(retry_payload_and_keys) :
            shapes[retry_payload_and_keys[k].h] # "fatal")
    /\ [][ pc = "resubmit"
           => \A j \in 1..Len(messages') :
                \E k \in 1..Len(retry_payload_and_keys) :
                   /\ shapes[retry_payload_and_keys[k].h] # "fatal"
                   /\ messages'[j] = messages[retry_payload_and_keys[k].h]
         ]_vars

\* A broker error off the transient list, with the bytes returned, has been
\* awaited in a pass that also queued a retry.
C6_Witness ==
    /\ pc = "resubmit"
    /\ last.kind = "MessageProduction" /\ last.err = "MessageSizeTooLarge"
    /\ CarriesOriginal(last)
    /\ FAILURE_SUM >= 1
    /\ retry_payload_and_keys # <<>>

\* C7: a flush of a single in-flight payload whose results are k >= 0
\* transient errors carrying the original message and no other error ends
\* with one success, and adds 1 to the success counter, k to the retry
\* counter and nothing to the failure and retry-lost counters.
C7_RetriedThenDelivered ==
    ( FlushReturned /\ mark.n = 1 /\ ev.transientLost = 0 /\ ev.fatal = 0 )
    => /\ ev.ok = 1
       /\ Delta = [success |-> 1, retry |-> ev.transient, failure |-> 0,
                   lost |-> 0, nsent |-> ev.transient]

\* One payload, two transient failures, then delivered.
C7_Witness ==
    /\ pc = "idle" /\ lastOp = "flush"
    /\ mark.n = 1 /\ ev.transient = 2 /\ ev.ok = 1
    /\ ev.transientLost = 0 /\ ev.fatal = 0
    /\ Delta.retry = 2 /\ Delta.success = 1

(***************************************************************************)
(* Properties of the dispatch.                                             *)
(***************************************************************************)
\* The calls run has made on sink s since it received its current event.
Made(s) == SubSeq(calls[s], evStart[s] + 1, Len(calls[s]))

\* deliver of the first n metrics of the current event of s, in order.
Delivered(s, n) == [k \in 1..n |-> DeliverCall(cur[s].metrics[k])]

\* C8: for every batch event the loop of a sink receives, of any size, the
\* calls made for it are deliver of each of its metrics, once each, in the
\* order of the batch: a prefix while the for loop runs, the whole batch once
\* it has ended.
C8_DeliverOncePerMetricInOrder ==
    \A s \in sinks :
      cur[s].type \in { "Graphite", "Statsd" } =>
        /\ rpc[s] = "event" =>
             Made(s) = Delivered(s, IF s \in hung THEN idx[s] ELSE idx[s] - 1)
        /\ (rpc[s] \in { "recv", "exited" } /\ processed[s] > 0) =>
             Made(s) = Delivered(s, Len(cur[s].metrics))

\* A sink has finished a batch of two metrics after an earlier event.
C8_Witness ==
    \E s \in sinks :
      /\ rpc[s] = "recv" /\ processed[s] = 2
      /\ cur[s] = Statsd(<< 1, 2 >>)
      /\ Made(s) = << DeliverCall(1), DeliverCall(2) >>

\* Some deliver call of c is followed by no flush and no shutdown.
Unflushed(c) ==
    \E k \in 1..Len(c) :
      /\ c[k].op = "deliver"
      /\ \A j \in (k + 1)..Len(c) : c[j].op \notin { "flush", "shutdown" }

\* C9 (as claimed): when run has returned because the channel was closed, its
\* last call on the sink was shutdown, and no delivered metric is left
\* without a later flush.
C9_ExitCallsShutdown ==
    \A s \in sinks :
      rpc[s] = "exited" =>
        /\ calls[s] # <<>>
        /\ calls[s][Len(calls[s])].op = "shutdown"
        /\ ~Unflushed(calls[s])

\* C10: with two or more sinks, the producer can always send its next event,
\* whatever the sinks are doing; and every sink whose own calls return
\* processes each event that was sent, even when another sink hangs for ever
\* (the producer sends finitely many events here, so: from some point on
\* every sink that is not itself hung has processed all that was sent).
C10_SinksAreIndependent ==
    /\ []( ( Cardinality(sinks) >= 2 /\ sendersAlive
             /\ Len(sentLog) < MaxEvents ) => ENABLED Produce )
    /\ <>[]( Cardinality(sinks) >= 2 =>
               \A s \in sinks : s \in hung \/ processed[s] = Len(sentLog) )

\* One sink hangs in its first call; another has processed both events.
C10_Witness ==
    \E a \in sinks, b \in sinks :
      /\ a # b
      /\ a \in hung /\ processed[a] = 0
      /\ b \notin hung /\ Len(sentLog) >= 2 /\ processed[b] = Len(sentLog)

(***************************************************************************)
(* Properties of the Kafka sink, continued.                                *)
(***************************************************************************)
\* The results awaited in the current (or last) flush that ended a payload:
\* delivered, failed for good, or lost on the way to a retry.
Terminal == ev.ok + ev.fatal + ev.transientLost

\* Every result of the pass that has just been awaited was a transient error
\* that returned its message.
AllTransient ==
    /\ pc = "resubmit"
    /\ \A k \in 1..Len(shapes) : shapes[k] = "transient"

\* C11: flush returns only when every payload that was in flight when it was
\* called has reached a terminal state; when no payload is answered with
\* transient errors for ever (here: the transport answers at most MaxSent
\* submissions in all), every flush that was called returns; and a pass
\* whose answers are all transient errors carrying their message leaves as
\* many messages in flight as before and goes back to the loop test, where
\* flush cannot return: answered so for ever, flush never returns.
C11_FlushConverges ==
    /\ [](FlushReturned => messages = <<>> /\ Terminal = mark.n)
    /\ [](pc \in {"while", "await", "resubmit"}
            => <>(pc \in {"idle", "dropped"}))
    /\ [][AllTransient =>
            /\ Len(messages') = Len(messages)
            /\ LoopCondition(messages')
            /\ pc' = "while"]_vars
    /\ [](pc = "while" /\ LoopCondition(messages) => ~ENABLED FlushReturn)

\* A flush of one payload has returned after two passes whose only answer was
\* a transient error carrying the message.
C11_Witness ==
    /\ pc = "idle" /\ lastOp = "flush"
    /\ mark.n = 1 /\ ev.transient = 2 /\ ev.ok = 1

\* C12 (as claimed): in every state of the sink, also between the passes of
\* flush, message_bytes is the sum of the payload lengths of the futures in
\* messages.
C12_BytesEqualInFlightAlways ==
    pc # "panicked" => message_bytes = SumLen(messages)

\* C12 (amended): whenever the sink is between two calls (after init, after
\* every deliver_raw, deliver and deliver_line, and after every return of
\* flush), message_bytes is the sum of the payload lengths of the futures in
\* messages; inside flush message_bytes keeps the value it had at the call
\* until flush returns.
C12_BytesEqualInFlightBetweenCalls ==
    /\ [](pc \in {"idle", "dropped"} => message_bytes = SumLen(messages))
    /\ [][(pc \in {"while", "await", "resubmit"}
            /\ pc' \notin {"idle", "dropped"})
          => message_bytes' = message_bytes]_vars

\* After a flush, an empty payload and one of four bytes are in flight.
C12_Witness ==
    /\ pc = "idle" /\ lastOp = "deliver_raw"
    /\ mark.n >= 1
    /\ Len(messages) = 2 /\ message_bytes = 4

\* The number of results of shape s among those awaited in the current pass.
InPass(s) == Cardinality({ k \in 1..Len(shapes) : shapes[k] = s })

\* C13 (as claimed): a flush of one in-flight payload whose only result is a
\* production error that does not carry payload and key back, whatever its
\* code, adds 1 to the retry-lost counter, resubmits nothing and adds nothing
\* to the failure counter.
C13_ErrorWithoutPayloadIsRetryLost ==
    ( /\ FlushReturned
      /\ mark.n = 1
      /\ Terminal + ev.transient = 1
      /\ last.kind = "MessageProduction"
      /\ ~CarriesOriginal(last) )
    => Delta.lost = 1 /\ Delta.failure = 0 /\ Delta.nsent = 0

\* C13 (amended): a production error whose code is on the transient list and
\* that does not carry payload and key back is counted once in the retry-lost
\* counter, by the pass that awaited it, is not resubmitted and is not
\* counted in the failure counter; a production error whose code is not on
\* the list is counted once in the failure counter and never in the
\* retry-lost counter, whether or not it carries the payload back.
C13_TransientWithoutPayloadIsRetryLost ==
    /\ [](FlushReturned =>
            Delta.lost = ev.transientLost /\ Delta.failure = ev.fatal)
    /\ [][pc = "resubmit"
          => (/\ RETRY_FAILURE_SUM' =
                    RETRY_FAILURE_SUM + InPass("transientLost")
              /\ Len(messages') = InPass("transient")
              /\ FAILURE_SUM' = FAILURE_SUM)]_vars
    /\ [][(pc = "await" /\ last'.kind = "MessageProduction"
            /\ last'.err \notin TransientErrors)
          => (/\ FAILURE_SUM' = FAILURE_SUM + 1
              /\ RETRY_FAILURE_SUM' = RETRY_FAILURE_SUM
              /\ retry_payload_and_keys' = retry_payload_and_keys)]_vars

\* A flush has returned that awaited a listed error without its payload and,
\* last, an unlisted error without its payload.
C13_Witness ==
    /\ FlushReturned
    /\ ev.transientLost >= 1 /\ ev.fatal >= 1
    /\ last.kind = "MessageProduction"
    /\ last.err \notin TransientErrors
    /\ ~CarriesOriginal(last)

\* C14: no step of the sink (deliver, deliver_line, deliver_raw, the steps of
\* flush and of shutdown; valve_state changes nothing) and no addition made
\* by the thread of another Kafka sink, in any interleaving, decreases any of
\* the four counters.
C14_CountersNeverDecrease ==
    [][/\ SUCCESS_SUM' >= SUCCESS_SUM
       /\ RETRY_SUM' >= RETRY_SUM
       /\ FAILURE_SUM' >= FAILURE_SUM
       /\ RETRY_FAILURE_SUM' >= RETRY_FAILURE_SUM]_vars

\* A flush that delivered a payload has returned, and meanwhile another sink
\* has added to the success counter too.
C14_Witness ==
    /\ pc = "idle" /\ lastOp = "flush"
    /\ others >= 1 /\ ev.ok >= 1
    /\ SUCCESS_SUM = ev.ok + others

\* C15: when the configuration lacks the topic name or the brokers, init
\* panics: there is no sink, nothing is or will be submitted to the
\* transport, and no operation of the sink can ever be called.
C15_IncompleteConfigPanics ==
    /\ []( (config.topic_name = None \/ config.brokers = None)
           => (/\ pc = "panicked"
               /\ messages = <<>> /\ nsent = 0 /\ message_bytes = 0) )
    /\ [](pc = "panicked" => ~ENABLED Next)
    /\ []( (is_some(config.topic_name) /\ is_some(config.brokers))
           => pc # "panicked" )

\* init was given brokers but no topic name.
C15_Witness ==
    /\ config.topic_name = None /\ is_some(config.brokers)
    /\ pc = "panicked"

CallsOf(e) ==
    IF e.type = "TimerFlush" THEN << FlushCall >>
    ELSE [k \in 1..Len(e.metrics) |-> DeliverCall(e.metrics[k])]

\* The calls that the first n events of log ask for, event after event.
RECURSIVE CallsOfFirst(_, _)
CallsOfFirst(log, n) ==
    IF n = 0 THEN <<>> ELSE CallsOfFirst(log, n - 1) \o CallsOf(log[n])

IsPrefix(a, b) == Len(a) <= Len(b) /\ a = SubSeq(b, 1, Len(a))

\* C17: each sink takes the events in the order they were sent, each once:
\* the calls it has made are those of the events it has finished, event after
\* event (so one flush per flush event, after all calls of the earlier events
\* and before any call of a later one), followed by a prefix of the calls of
\* the event it is matching, which is the next one sent; what is left in its
\* channel is the rest of what was sent.
C17_EventsInSendOrderOnce ==
    \A s \in sinks :
      /\ processed[s] <= Len(sentLog)
      /\ rpc[s] \in { "recv", "exited" } =>
           /\ calls[s] = CallsOfFirst(sentLog, processed[s])
           /\ chan[s] = SubSeq(sentLog, processed[s] + 1, Len(sentLog))
      /\ rpc[s] = "event" =>
           /\ processed[s] < Len(sentLog)
           /\ cur[s] = sentLog[processed[s] + 1]
           /\ chan[s] = SubSeq(sentLog, processed[s] + 2, Len(sentLog))
           /\ SubSeq(calls[s], 1, evStart[s])
                = CallsOfFirst(sentLog, processed[s])
           /\ IsPrefix(Made(s), CallsOf(cur[s]))

\* A batch and then a flush event were sent; a sink has finished both.
C17_Witness ==
    \E s \in sinks :
      /\ sentLog = << Graphite(<< 1, 2 >>), TimerFlush >>
      /\ processed[s] = 2
      /\ calls[s] = << DeliverCall(1), DeliverCall(2), FlushCall >>

(***************************************************************************)
(* Properties of the Kafka sink: order, accounting, the valve.             *)
(***************************************************************************)
\* C18: in a pass of flush the k-th wait is on the k-th future of messages,
\* which are in the order of their submission; each future is waited on
\* once; nothing is submitted while the pass waits, and when it resubmits
\* every future of the pass has been waited on; the messages to retry are
\* resubmitted in the order they had in messages.
C18_AwaitedAndResubmittedInOrder ==
    /\ [](pc = "await" => Len(shapes) = i - 1 /\ i <= Len(messages))
    /\ [][pc = "await"
          => (/\ i' = i + 1
              /\ messages' = messages
              /\ nsent' = nsent
              /\ Len(retry_payload_and_keys') > Len(retry_payload_and_keys)
                   => retry_payload_and_keys'
                        [Len(retry_payload_and_keys')].h = i)]_vars
    /\ [](pc = "resubmit" => Len(shapes) = Len(messages))
    /\ [][pc = "resubmit"
          => messages' = TransientOnes(messages, shapes, 1)]_vars

\* The two messages in flight, with different keys, have been resubmitted by
\* one pass in the order they had.
C18_Witness ==
    /\ pc = "while"
    /\ mark.n = 2 /\ ev.transient = 2 /\ nsent = 4
    /\ messages = << try_payload(<<1, 2, 3, 4>>, ToHex(171)),
                     try_payload(<<1, 2, 3, 4>>, ToHex(0)) >>

ReturnStep == pc = "while" /\ pc' \in { "idle", "dropped" }

\* C20: deliver_raw can be called whatever the valve says, and it submits the
\* payload and adds its length to message_bytes, with the valve Closed too;
\* message_bytes decreases only when flush returns, and a Closed valve
\* becomes Open only when flush returns; deliver and deliver_line leave
\* messages, message_bytes, the counters and the transport as they were.
C20_ValveIsAdvisory ==
    /\ [](pc = "idle" /\ nsent < budget => ENABLED DeliverRaw)
    /\ [][pc = "idle" /\ nsent' = nsent + 1
          => (/\ Len(messages') = Len(messages) + 1
              /\ SubSeq(messages', 1, Len(messages)) = messages
              /\ message_bytes' =
                   message_bytes + Len(messages'[Len(messages')].payload))]_vars
    /\ [][message_bytes' < message_bytes => ReturnStep]_vars
    /\ [][(valve_state(message_bytes, max_message_bytes) = "Closed"
           /\ valve_state(message_bytes', max_message_bytes') = "Open")
          => ReturnStep]_vars
    /\ [][lastOp' \in { "deliver", "deliver_line" }
          => (/\ messages' = messages
              /\ message_bytes' = message_bytes
              /\ counters' = counters
              /\ nsent' = nsent
              /\ pc' = pc)]_vars

\* With the ceiling 4, a second payload of four bytes was submitted while the
\* valve was Closed, and deliver was called after it: eight bytes are in
\* flight.
C20_Witness ==
    /\ pc = "idle" /\ lastOp = "deliver"
    /\ max_message_bytes = 4
    /\ Len(messages) = 2 /\ message_bytes = 8
    /\ ValveState = "Closed"

====
